---- MODULE Spec2Model ----
(***************************************************************************)
(* Resource cache and dispatch orchestration of the metal runtime.         *)
(*                                                                         *)
(* The cache (cache.m) is a realloc-grown array of pointers guarded by     *)
(* @synchronized(cacheLock).  Kernels (metal_newFunction) and buffers      *)
(* (metal_newBuffer) are registered in it and resolved again by            *)
(* metal_runFunction, function_name and metal_retrieveBuffer.  Every       *)
(* caller is a thread; a thread is either idle, inside one public          *)
(* operation, or done with a result it has not yet consumed.               *)
(***************************************************************************)
EXTENDS Integers, Sequences, FiniteSets, Bags, TLC

\* ---------------------------------------------------------------- bounds
MaxItems == 2

\* The callers: two threads that each make any number of calls.
Threads == {1, 2}

\* ------------------------------------------------------------- constants
NIL == 0
UNINIT == -1
WILD == -2
NoThread == 0
NoLock == 0
LockObj == 1

\* The width of a C int, scaled down from 32 bits; a Go int is wider.
CIntBits == 15
CIntMax == 2 ^ (CIntBits - 1) - 1

\* C.int(x): the low CIntBits bits of x, read as a signed number.
CInt(x) ==
  LET r == x % (2 ^ CIntBits)
  IN IF r > CIntMax THEN r - 2 ^ CIntBits ELSE r

\* An Id no cache of the model ever issues (Test_FunctionId_Run_invalid).
NeverIssued == 10000

\* The integers a caller passes as an Id.
HandleInputs == ((-1)..MaxItems) \cup {NeverIssued}

\* The longest buffer Id list a caller passes to Run.
MaxBufs == 2

\* The buffer Id lists a caller passes to Run: Ids the cache may have
\* issued, and one it never issues.
BufInputs == (1..MaxItems) \cup {NeverIssued}
BufLists == UNION {[1..n -> BufInputs] : n \in 0..MaxBufs}

\* What callers pass to Run: everything when callers take turns (wide);
\* a registered kernel with one buffer Id when Run is one of several
\* concurrent readers of the cache.
RunFids(wide) == IF wide THEN HandleInputs ELSE 1..MaxItems
RunLists(wide) == IF wide THEN BufLists ELSE {<<1>>}
RunGrids(wide) == IF wide THEN {<<-1, -1, -1>>, <<3, 0, 0>>,
                                 <<CIntMax + 1, 2, 1>>}
                  ELSE {<<3, 0, -1>>}

\* Inputs of the runs that move data: the length of the buffers, the
\* values a caller stores, the Id of the transfer kernel, lists of the two
\* buffers' Ids, and grids up to the buffers' length.
DataLen == 3
DataValues == {0, 1}
DataFids == {1}
DataLists == {<<2, 3>>, <<3, 2>>, <<2, 2>>}
DataGrids == {<<DataLen, 0, 0>>, <<DataLen - 1, 0, 0>>, <<-1, -1, -1>>,
              <<DataLen, 2, 1>>}

\* Shapes of the buffers whose views are written: (L), (L, W) and
\* (L, W, H).
ViewShapes == {<<3>>, <<2, 3>>, <<3, 2>>, <<2, 3, 2>>, <<1, 2, 3>>}

\* Kernel sources: the empty text, text that does not compile, and a
\* library that defines the kernels "a" and "b".
Sources == {"", "bad", "lib"}
FuncNames == {"", "a", "b", "z"}
Defines(src) == IF src = "lib" THEN {"a", "b"} ELSE {}
Compiles(src) == src = "lib"

\* Dimension lists handed to newBuffer.
ElemSize == 4
\* A shape whose byte count is 2^CIntBits + 2 * ElemSize: one that a C int
\* cannot hold.
WideDims == <<2, (CIntMax + 1) \div ElemSize + 1>>
DimLists == {<<>>, <<0>>, <<-1>>, <<2, -1>>, <<1, 2, 0>>, <<2, 3>>}
ApiDims == DimLists \cup {WideDims}

\* Outcomes the device can produce at a step that may fail.
DeviceOutcomes == {"ok", "fail"}

\* What callers pass to the creating calls, and what the device answers:
\* everything when callers take turns (wide); sources that compile, kernels
\* they define, well-formed dimensions and a device that delivers when the
\* calls are concurrent.
NewSources(wide) == IF wide THEN Sources ELSE {"lib"}
NewNames(wide) == IF wide THEN FuncNames ELSE {"a", "b"}
NewDims(wide) == IF wide THEN DimLists ELSE {<<2, 3>>}
Outcomes(wide) == IF wide THEN DeviceOutcomes ELSE {"ok"}

\* What metal_newFunction asks of the device and the cache, in the order of
\* its statements: newLibraryWithSource, newFunctionWithName,
\* newComputePipelineStateWithFunction, newCommandQueue, cache_cache.
Stages == <<"library", "function", "pipeline", "queue", "cache">>

\* The first statement of metal_newFunction after the two strlen checks
\* that returns an error, as a position in Stages (0: none), given what the
\* device answers to the pipeline (po) and queue (qo) requests.
\* (FirstFailureQueueFirst asks for the queue before anything else.)
FirstFailureQueueFirst(src, fname, po, qo) ==
  IF qo = "fail" THEN 4
  ELSE IF ~Compiles(src) THEN 1
  ELSE IF fname \notin Defines(src) THEN 2
  ELSE IF po = "fail" THEN 3
  ELSE 0
FirstFailure(src, fname, po, qo) ==
  IF ~Compiles(src) THEN 1
  ELSE IF fname \notin Defines(src) THEN 2
  ELSE IF po = "fail" THEN 3
  ELSE IF qo = "fail" THEN 4
  ELSE 0

\* The message logError is given when stage k fails.
StageError(k, fname) ==
  CASE k = 1 -> [text |-> "Failed to create library (see console log)",
                 args |-> <<>>]
    [] k = 2 -> [text |-> "Failed to find function '%s'", args |-> <<fname>>]
    [] k = 3 -> [text |-> "Failed to create pipeline (see console log)",
                 args |-> <<>>]
    [] k = 4 -> [text |-> "Failed to set up command queue", args |-> <<>>]
    [] OTHER -> [text |-> "Failed to cache function", args |-> <<>>]

\* strlen(text) == 0.  (MissingNever lets the empty text pass.)
MissingNever(text) == FALSE
Missing(text) == text = ""

\* Pipeline limits the device reports.
ThreadExecutionWidth == 2
MaxTotalThreadsPerThreadgroup == 5

\* ----------------------------------------------------------------- state
VARIABLES
  cache,       \* the backing array: cache[k] is the pointer in slot k-1
  numItems,    \* int numItems
  cacheLock,   \* NSLock *cacheLock (NoLock = nil)
  lockHolder,  \* thread inside @synchronized(cacheLock), or NoThread
  cacheStale,  \* TRUE between realloc's call and the assignment to cache
  objs,        \* native resources by pointer (1-based)
  aborted,     \* the process died on an uncaught exception or a fault
  pc,          \* position of each thread
  op,          \* operation each thread is in, with its arguments
  stage,       \* which cache lookup of the operation is running
  item,        \* local item of the cache function a thread is in
  cacheId,     \* local cacheId of the cache function a thread is in
  size,        \* element count passed to realloc
  idx,         \* loop index i of metal_runFunction
  bound,       \* buffers set in the encoder so far, by argument index
  cmdBuf,      \* the command buffer of the Run a thread is in
  res,         \* what the operation returned to its caller
  before,      \* numItems and cache as a creating call found them
  issued       \* every <<cacheId, item>> cache_cache has returned, in order

vars == <<cache, numItems, cacheLock, lockHolder, cacheStale, objs, aborted,
          pc, op, stage, item, cacheId, size, idx, bound, cmdBuf, res, before,
          issued>>

cacheVars == <<cache, numItems, cacheLock, cacheStale>>
localVars == <<item, cacheId, size, idx, bound, cmdBuf>>

\* --------------------------------------------------------------- helpers
NoErr == [wrap |-> "", text |-> "", args |-> <<>>]
NoMsg == [text |-> "", args |-> <<>>]

\* A C or NSString text, and [NSString stringWithFormat:] applied to a
\* format and its arguments.
Str(text) == [text |-> text, args |-> <<>>]
stringWithFormat(format, args) == [text |-> format, args |-> args]

\* logError: message = stringWithFormat(@"%@", format).  The message is the
\* format object itself; the variadic arguments va are never read.
logError(format, va) == format

\* metalErrToError: nil when there is neither a metal error nor a wrap.
\* (Nil is a conversion that loses the failure.)
metalErrToErrorNil(metalErr, wrap) == NoErr
metalErrToError(metalErr, wrap) ==
  [wrap |-> wrap, text |-> metalErr.text, args |-> metalErr.args]

\* errors.New(text)
GoError(text) == [wrap |-> "", text |-> text, args |-> <<>>]

NoOp == [kind |-> "none", src |-> "", fname |-> "", dims |-> <<>>,
         fid |-> 0, grid |-> <<0, 0, 0>>, bufs |-> <<>>, ptr |-> 0,
         dev |-> <<>>]

NoRes == [id |-> 0, err |-> NoErr, name |-> "", ptr |-> NIL,
          grid |-> <<0, 0, 0>>, group |-> <<0, 0, 0>>, bufs |-> <<>>,
          numElems |-> 0, stages |-> <<>>, status |-> "none",
          items |-> EmptyBag, view |-> <<>>, slices |-> {},
          valid |-> FALSE, commits |-> 0]

NoSnap == [n |-> 0, c |-> <<>>, o |-> 0]

\* No command buffer; otherwise the sizes dispatchThreads encoded, the
\* MTLCommandBufferStatus, the work items the device has run and the number
\* of times the call has sent commit.
NoCmd == [status |-> "none", grid |-> <<0, 0, 0>>, group |-> <<0, 0, 0>>,
          items |-> EmptyBag, commits |-> 0]

NoObj == [kind |-> "none", name |-> "", bytes |-> 0, tew |-> 0, maxT |-> 0,
          data |-> <<>>]

RECURSIVE Product(_)
Product(s) == IF s = <<>> THEN 1 ELSE Head(s) * Product(Tail(s))

Max(a, b) == IF a >= b THEN a ELSE b

\* newBuffer: some dimLen < 1.  (BadDimBelowZero lets a length of 0 pass.)
BadDimBelowZero(dims) == \E k \in 1..Len(dims) : dims[k] < 0
BadDim(dims) == \E k \in 1..Len(dims) : dims[k] < 1

\* newBufferWithLength: a block of n elements, every one zero.
ZeroFilled(n) == [e \in 1..n |-> 0]

\* toSlice: a slice of numElems elements over the block at data.  An
\* element of a slice is a place in the block, written as its offset.
toSlice(data, numElems) == [e \in 1..numElems |-> e - 1]

\* fold(in, n): n slices of in, one after the other and equally long, none
\* of them a copy.
fold(in, n) ==
  LET chunk == Len(in) \div n
  IN [i \in 1..n |-> SubSeq(in, (i - 1) * chunk + 1, i * chunk)]

\* What NewBuffer1D, NewBuffer2D and NewBuffer3D return for the slice b1 of
\* newBuffer.  (OuterByWidth folds the rows by the width.)
BufferViewOuterByWidth(b1, dims) ==
  IF Len(dims) = 2 THEN fold(b1, dims[2])
  ELSE IF Len(dims) = 3 THEN fold(fold(b1, dims[1] * dims[2]), dims[2])
  ELSE b1
BufferView(b1, dims) ==
  IF Len(dims) = 2 THEN fold(b1, dims[1])
  ELSE IF Len(dims) = 3 THEN fold(fold(b1, dims[1] * dims[2]), dims[1])
  ELSE b1

\* The capacity toSlice gives its slice: hdr.Cap = numElems.  (Slack is a
\* header whose capacity covers one element more.)
toSliceCapSlack(numElems) == numElems + 1
toSliceCap(numElems) == numElems

\* The capacity of a slice fold makes: its length.
foldCap(out) == Len(out)

\* Every slice of the view returned for dims, as <<nesting level, length,
\* capacity>>: the one slice of toSlice for one dimension, otherwise the
\* slices the calls of fold made.
BufferSlices(view, dims) ==
  IF Len(dims) = 1
  THEN {<<1, Len(view), toSliceCap(Len(view))>>}
  ELSE {<<1, Len(view), foldCap(view)>>}
       \cup {<<2, Len(view[i]), foldCap(view[i])>> : i \in 1..Len(view)}
       \cup (IF Len(dims) = 3
              THEN UNION {{<<3, Len(view[i][j]), foldCap(view[i][j])>>
                             : j \in 1..Len(view[i])} : i \in 1..Len(view)}
              ELSE {})

\* The index tuples of a view of the given depth, and the element a tuple
\* names.
ViewIndices(view, depth) ==
  IF depth = 1 THEN {<<i>> : i \in 1..Len(view)}
  ELSE IF depth = 2
  THEN UNION {{<<i, j>> : j \in 1..Len(view[i])} : i \in 1..Len(view)}
  ELSE UNION {UNION {{<<i, j, k>> : k \in 1..Len(view[i][j])}
                       : j \in 1..Len(view[i])} : i \in 1..Len(view)}

ViewAt(view, ix) ==
  IF Len(ix) = 1 THEN view[ix[1]]
  ELSE IF Len(ix) = 2 THEN view[ix[1]][ix[2]]
  ELSE view[ix[1]][ix[2]][ix[3]]

\* BufferId.Valid / FunctionId.Valid
ValidNotBelowZero(id) == id >= 0
Valid(id) == id > 0

\* cache_init, called by metal_init: creates the object @synchronized
\* locks on.
cache_init == LockObj

\* @synchronized(lock): with a nil lock no locking takes place.  (The
\* NoWait and NoHold forms are a block that excludes nobody.)
SyncCanEnterNoWait(lock, holder, t) == TRUE
SyncCanEnter(lock, holder, t) == lock = NoLock \/ holder = NoThread
SyncEnterNoHold(lock, holder, t) == holder
SyncEnter(lock, holder, t) == IF lock = NoLock THEN holder ELSE t
SyncExit(holder, t) == IF holder = t THEN NoThread ELSE holder

\* A cache Id is an item's 1-based index in the cache: the slot cache_cache
\* writes when the count is n, the Id it returns, and the slot
\* cache_retrieve and cache_remove use for an Id.  (PastEnd, ZeroBased and
\* NoShift are the same conversions off by one.)
StoreIndexPastEnd(n) == n
StoreIndex(n) == n - 1
CacheIdZeroBased(n) == n - 1
CacheIdOf(n) == n
RetrieveIndexNoShift(id) == id
RetrieveIndex(id) == id - 1
RemoveIndexNoShift(id) == id
RemoveIndex(id) == id - 1

\* cache_remove applied to a cache c that no other thread touches, for an Id
\* within 1..Len(c): cache[cacheId - 1] = nil.
cache_remove(c, id) ==
  [k \in 1..Len(c) |-> IF k = RemoveIndex(id) + 1 THEN NIL ELSE c[k]]

\* realloc(cache, sizeof(void *) * n): the old contents up to the smaller
\* of the two sizes, the new tail uninitialised.  (ReallocFresh is a block
\* that keeps nothing of the old one.)
ReallocFresh(old, n) == [k \in 1..n |-> UNINIT]
Realloc(old, n) ==
  [k \in 1..n |-> IF k <= Len(old) THEN old[k] ELSE UNINIT]

\* The values a read of cache[index] can yield.
ReadSlot(index) ==
  IF ~cacheStale /\ index >= 0 /\ index < Len(cache) /\ cache[index + 1] # UNINIT
  THEN {cache[index + 1]}
  ELSE {NIL, WILD}

\* cache[index] = v
WriteSlot(index, v) ==
  IF ~cacheStale /\ index >= 0 /\ index < Len(cache)
  THEN [cache EXCEPT ![index + 1] = v]
  ELSE cache

\* The object a pointer refers to.
Deref(p) == IF p >= 1 /\ p <= Len(objs) THEN objs[p] ELSE NoObj

\* The cache as a creating call finds it.  Taken when callers take turns:
\* only then is there one cache "before the call" to compare with.
Snapshot(wide) ==
  IF wide THEN [n |-> numItems, c |-> cache, o |-> Len(objs)] ELSE NoSnap

\* ------------------------------------------------------------------ Init
Init ==
  /\ cache = <<>>
  /\ numItems = 0
  /\ cacheLock = cache_init
  /\ lockHolder = NoThread
  /\ cacheStale = FALSE
  /\ objs = <<>>
  /\ aborted = FALSE
  /\ pc = [t \in Threads |-> "idle"]
  /\ op = [t \in Threads |-> NoOp]
  /\ stage = [t \in Threads |-> "none"]
  /\ item = [t \in Threads |-> NIL]
  /\ cacheId = [t \in Threads |-> 0]
  /\ size = [t \in Threads |-> 0]
  /\ idx = [t \in Threads |-> 0]
  /\ bound = [t \in Threads |-> <<>>]
  /\ cmdBuf = [t \in Threads |-> NoCmd]
  /\ res = [t \in Threads |-> NoRes]
  /\ before = [t \in Threads |-> NoSnap]
  /\ issued = <<>>

\* ---------------------------------------------------------- control flow
\* The operation of thread t returns r to its caller: the frames of the C
\* and Go functions are gone, the result waits to be taken.
Finish(t, r) ==
  /\ pc' = [pc EXCEPT ![t] = "done"]
  /\ res' = [res EXCEPT ![t] = r]
  /\ stage' = [stage EXCEPT ![t] = "none"]
  /\ item' = [item EXCEPT ![t] = NIL]
  /\ cacheId' = [cacheId EXCEPT ![t] = 0]
  /\ size' = [size EXCEPT ![t] = 0]
  /\ idx' = [idx EXCEPT ![t] = 0]
  /\ bound' = [bound EXCEPT ![t] = <<>>]
  /\ cmdBuf' = [cmdBuf EXCEPT ![t] = NoCmd]

Only(f, t, none) == [u \in Threads |-> IF u = t THEN f[t] ELSE none]

\* An NSCAssert that fails raises an NSException nothing catches, and a
\* message sent through a pointer of the wrong type faults: the process
\* ends, every thread with it.  An exception raised inside @synchronized
\* releases the lock while unwinding.
Abort(t) ==
  /\ aborted' = TRUE
  /\ pc' = [u \in Threads |-> "aborted"]
  /\ lockHolder' = SyncExit(lockHolder, t)
  /\ op' = Only(op, t, NoOp)
  /\ stage' = Only(stage, t, "none")
  /\ item' = Only(item, t, NIL)
  /\ cacheId' = Only(cacheId, t, 0)
  /\ size' = Only(size, t, 0)
  /\ idx' = Only(idx, t, 0)
  /\ bound' = Only(bound, t, <<>>)
  /\ cmdBuf' = Only(cmdBuf, t, NoCmd)
  /\ res' = Only(res, t, NoRes)
  /\ before' = Only(before, t, NoSnap)

\* Thread t moves to label l and nothing else of its frame changes.
Goto(t, l) ==
  /\ pc' = [pc EXCEPT ![t] = l]
  /\ UNCHANGED <<aborted, op, res, before>>

\* ------------------------------------------------------------ cache_cache
\* NSCAssert(item != nil); @synchronized(cacheLock) {
CcEnter(t) ==
  /\ pc[t] = "cc_enter"
  /\ \/ /\ item[t] = NIL
        /\ Abort(t)
     \/ /\ item[t] # NIL
        /\ SyncCanEnter(cacheLock, lockHolder, t)
        /\ lockHolder' = SyncEnter(cacheLock, lockHolder, t)
        /\ cacheId' = [cacheId EXCEPT ![t] = 0]
        /\ Goto(t, "cc_inc")
        /\ UNCHANGED <<stage, item, size, idx, bound, cmdBuf>>
  /\ UNCHANGED <<cacheVars, objs, issued>>

\* numItems++
CcInc(t) ==
  /\ pc[t] = "cc_inc"
  /\ numItems' = numItems + 1
  /\ Goto(t, "cc_realloc")
  /\ UNCHANGED <<cache, cacheLock, cacheStale, lockHolder, objs, stage,
                 localVars, issued>>

\* realloc(cache, sizeof(void *) * numItems): the call itself
CcRealloc(t) ==
  /\ pc[t] = "cc_realloc"
  /\ size' = [size EXCEPT ![t] = numItems]
  /\ cacheStale' = TRUE
  /\ Goto(t, "cc_assign")
  /\ UNCHANGED <<cache, numItems, cacheLock, lockHolder, objs, stage, item,
                 cacheId, idx, bound, cmdBuf, issued>>

\* cache = <the block realloc returned>
CcAssign(t) ==
  /\ pc[t] = "cc_assign"
  /\ cache' = Realloc(cache, size[t])
  /\ cacheStale' = FALSE
  /\ size' = [size EXCEPT ![t] = 0]
  /\ Goto(t, "cc_write")
  /\ UNCHANGED <<numItems, cacheLock, lockHolder, objs, stage, item, cacheId,
                 idx, bound, cmdBuf, issued>>

\* cache[numItems - 1] = item
CcWrite(t) ==
  /\ pc[t] = "cc_write"
  /\ cache' = WriteSlot(StoreIndex(numItems), item[t])
  /\ Goto(t, "cc_id")
  /\ UNCHANGED <<numItems, cacheLock, cacheStale, lockHolder, objs, stage,
                 localVars, issued>>

\* The caller's code after cache_cache has returned id.
AfterCache(t, id) ==
  \/ \* the tail of metal_newFunction and of NewFunction
     /\ op[t].kind = "NewFunction"
     /\ IF id = 0
        THEN Finish(t, [NoRes EXCEPT !.err = metalErrToError(
                 logError(Str("Failed to cache function"), <<>>),
                 "Unable to set up metal function"),
                                     !.stages = Stages])
        ELSE Finish(t, [NoRes EXCEPT !.id = id, !.ptr = item[t],
                                     !.stages = Stages])
  \/ \* the tail of metal_newBuffer, then newBuffer up to buffer_retrieve
     /\ op[t].kind = "NewBuffer"
     /\ IF id = 0
        THEN Finish(t, [NoRes EXCEPT !.err = metalErrToError(
                 logError(Str("Failed to cache buffer"), <<>>),
                 "Unable to create buffer")])
        ELSE /\ pc' = [pc EXCEPT ![t] = "cr_enter"]
             /\ stage' = [stage EXCEPT ![t] = "alloc"]
             /\ cacheId' = [cacheId EXCEPT ![t] = id]
             /\ item' = [item EXCEPT ![t] = NIL]
             /\ UNCHANGED <<res, size, idx, bound, cmdBuf>>

\* cacheId = numItems; } return cacheId;
CcId(t) ==
  /\ pc[t] = "cc_id"
  /\ lockHolder' = SyncExit(lockHolder, t)
  /\ issued' = Append(issued, <<CacheIdOf(numItems), item[t]>>)
  /\ AfterCache(t, CacheIdOf(numItems))
  /\ UNCHANGED <<cacheVars, objs, aborted, op, before>>

\* --------------------------------------------------------- cache_retrieve
\* @synchronized(cacheLock) { NSCAssert(cacheId >= 1); NSCAssert(cacheId <=
\* numItems);
CrEnter(t) ==
  /\ pc[t] = "cr_enter"
  /\ SyncCanEnter(cacheLock, lockHolder, t)
  /\ IF cacheId[t] >= 1 /\ cacheId[t] <= numItems
     THEN /\ lockHolder' = SyncEnter(cacheLock, lockHolder, t)
          /\ item' = [item EXCEPT ![t] = NIL]
          /\ Goto(t, "cr_read")
          /\ UNCHANGED <<stage, cacheId, size, idx, bound, cmdBuf>>
     ELSE Abort(t)
  /\ UNCHANGED <<cacheVars, objs, issued>>


\* width, height, depth := C.int(grid.X), C.int(grid.Y), C.int(grid.Z), then
\* every axis below 1 becomes 1 (Run).
NormGrid(g) == <<Max(CInt(g[1]), 1), Max(CInt(g[2]), 1), Max(CInt(g[3]), 1)>>

\* MTLSizeMake(w, h, 1) with w = threadExecutionWidth and
\* h = maxTotalThreadsPerThreadgroup / w.  (Undivided is a group as tall as
\* the whole limit.)
ThreadgroupSizeUndivided(f) == <<f.tew, f.maxT, 1>>
ThreadgroupSize(f) == <<f.tew, f.maxT \div f.tew, 1>>

\* [encoder setBuffer:buffer offset:0 atIndex:i]: argument index i of the
\* kernel is entry i + 1 of b.  (AtZero sets argument 0 every time.)
SetBufferAtZero(b, buffer, i) == <<buffer>>
SetBuffer(b, buffer, i) ==
  [k \in 1..Max(Len(b), i + 1) |->
     IF k = i + 1 THEN buffer ELSE IF k <= Len(b) THEN b[k] ELSE NIL]

\* What Run returns once the error string has come back from C.
RunResult(msg, b) ==
  [NoRes EXCEPT !.err = IF msg = NoMsg THEN NoErr
                         ELSE metalErrToError(msg, "Unable to run metal function"),
                !.bufs = b]

\* A thread of a thread group runs when dispatchThreads was given the grid:
\* the groups at the far edges are cut to the grid.  (Padded is a dispatch
\* in whole thread groups.)
RunsPadded(p, grid) == TRUE
Runs(p, grid) == \A a \in 1..3 : p[a] < grid[a]

\* The work items the device runs for a grid and a thread-group size, each
\* with the number of times it runs: enough groups along every axis to
\* cover the grid, every thread of every group at the position
\* group * size + thread.
Executed(grid, group) ==
  LET groups == [a \in 1..3 |-> (grid[a] + group[a] - 1) \div group[a]]
      Axis(n) == 0..(n - 1)
      launched ==
        (Axis(groups[1]) \X Axis(groups[2]) \X Axis(groups[3]))
          \X (Axis(group[1]) \X Axis(group[2]) \X Axis(group[3]))
      pos(gl) == [a \in 1..3 |-> gl[1][a] * group[a] + gl[2][a]]
      ran == {gl \in launched : Runs(pos(gl), grid)}
  IN [p \in {pos(gl) : gl \in ran} |-> Cardinality({gl \in ran : pos(gl) = p})]

\* The kernels of the tests.  transfer copies element x of its first
\* argument to element x of its second for the work item at (x, y, z);
\* every other kernel writes nothing.  The result is the new memory of the
\* device.
KernelWrites(k, b, items) ==
  IF /\ k.name = "transfer"
     /\ Len(b) >= 2
     /\ Deref(b[1]).kind = "buffer"
     /\ Deref(b[2]).kind = "buffer"
  THEN [objs EXCEPT ![b[2]].data =
          [e \in 1..Len(@) |->
             IF /\ \E p \in DOMAIN items : p[1] = e - 1
                /\ e <= Len(objs[b[1]].data)
             THEN objs[b[1]].data[e]
             ELSE @[e]]]
  ELSE objs

\* waitUntilCompleted returns once the command buffer has completed, with
\* or without an error of the device.  (NoWait returns at once.)
CompletedNoWait(status) == TRUE
Completed(status) == status \in {"completed", "error"}

\* dispatchThreads:threadsPerThreadgroup:, endEncoding, commit: the command
\* buffer, with the grid and the group size encoded, is with the device.
Dispatch(t, f, b) ==
  /\ cmdBuf' = [cmdBuf EXCEPT ![t] =
                  [status |-> "committed",
                   grid |-> NormGrid(op[t].grid),
                   group |-> ThreadgroupSize(Deref(f)),
                   items |-> EmptyBag,
                   commits |-> cmdBuf[t].commits + 1]]
  /\ bound' = [bound EXCEPT ![t] = b]
  /\ pc' = [pc EXCEPT ![t] = "rf_wait"]
  /\ stage' = [stage EXCEPT ![t] = "none"]
  /\ item' = [item EXCEPT ![t] = NIL]
  /\ cacheId' = [cacheId EXCEPT ![t] = 0]
  /\ idx' = [idx EXCEPT ![t] = 0]
  /\ UNCHANGED <<res, size>>

\* The for loop of metal_runFunction at index i with b already bound:
\* the next cache_retrieve, or the dispatch once every buffer is bound.
\* (Early leaves the loop after its first round.)
MoreBuffersEarly(i, numBufferIds) == i < numBufferIds /\ i < 1
MoreBuffers(i, numBufferIds) == i < numBufferIds

LoopOrDispatch(t, f, i, b) ==
  IF MoreBuffers(i, Len(op[t].bufs))
  THEN /\ cacheId' = [cacheId EXCEPT ![t] = CInt(op[t].bufs[i + 1])]
       /\ idx' = [idx EXCEPT ![t] = i]
       /\ bound' = [bound EXCEPT ![t] = b]
       /\ stage' = [stage EXCEPT ![t] = "buf"]
       /\ pc' = [pc EXCEPT ![t] = "cr_enter"]
       /\ item' = [item EXCEPT ![t] = NIL]
       /\ UNCHANGED <<res, size, cmdBuf>>
  ELSE Dispatch(t, f, b)

\* The caller's code after cache_retrieve has returned it.
AfterRetrieve(t, it) ==
  \/ \* a direct call
     /\ op[t].kind = "Retrieve"
     /\ Finish(t, [NoRes EXCEPT !.ptr = it])
     /\ UNCHANGED <<op, aborted, before>>
  \/ \* metal_retrieveBuffer and the tail of newBuffer
     /\ op[t].kind = "NewBuffer"
     /\ IF it = NIL
        THEN /\ Finish(t, [NoRes EXCEPT !.err = metalErrToError(
                   logError(Str("Failed to retrieve buffer"), <<>>),
                   "Unable to retrieve buffer")])
             /\ UNCHANGED <<op, aborted, before>>
        ELSE IF Deref(it).kind # "buffer"
        THEN Abort(t)
        ELSE /\ Finish(t, [NoRes EXCEPT !.id = cacheId[t], !.ptr = it,
                                        !.numElems = Product(op[t].dims),
                                        !.view = BufferView(
                                          toSlice(it, Product(op[t].dims)),
                                          op[t].dims),
                                        !.slices = BufferSlices(
                                          BufferView(
                                            toSlice(it, Product(op[t].dims)),
                                            op[t].dims),
                                          op[t].dims)])
             /\ UNCHANGED <<op, aborted, before>>
  \/ \* function_name and the tail of String
     /\ op[t].kind = "Name"
     /\ IF it = NIL
        THEN /\ Finish(t, [NoRes EXCEPT !.name = ""])
             /\ UNCHANGED <<op, aborted, before>>
        ELSE IF Deref(it).kind # "function"
        THEN \/ Abort(t)
             \/ /\ Finish(t, [NoRes EXCEPT !.name = ""])
                /\ UNCHANGED <<op, aborted, before>>
        ELSE /\ Finish(t, [NoRes EXCEPT !.name = Deref(it).name])
             /\ UNCHANGED <<op, aborted, before>>
  \/ \* metal_runFunction after the function lookup
     /\ op[t].kind = "Run" /\ stage[t] = "fn"
     /\ IF it = NIL
        THEN /\ Finish(t, RunResult(
                   logError(Str("Failed to retrieve function"), <<>>), <<>>))
             /\ UNCHANGED <<op, aborted, before>>
        ELSE IF Deref(it).kind # "function"
        THEN \/ Abort(t)
             \/ /\ Finish(t, RunResult(
                      logError(Str("Failed to set up command buffer"), <<>>),
                      <<>>))
                /\ UNCHANGED <<op, aborted, before>>
        ELSE \E cb \in DeviceOutcomes, enc \in DeviceOutcomes :
               IF cb = "fail"
               THEN /\ Finish(t, RunResult(
                          logError(Str("Failed to set up command buffer"), <<>>),
                          <<>>))
                    /\ UNCHANGED <<op, aborted, before>>
               ELSE IF enc = "fail"
               THEN /\ Finish(t, RunResult(
                          logError(Str("Failed to set up compute encoder"), <<>>),
                          <<>>))
                    /\ UNCHANGED <<op, aborted, before>>
               ELSE /\ op' = [op EXCEPT ![t].ptr = it]
                    /\ LoopOrDispatch(t, it, 0, <<>>)
                    /\ UNCHANGED <<aborted, before>>
  \/ \* metal_runFunction after the lookup of bufferIds[i]
     /\ op[t].kind = "Run" /\ stage[t] = "buf"
     /\ IF it = NIL
        THEN /\ Finish(t, RunResult(
                   logError(Str("Failed to retrieve buffer %d/%d using Id %d"),
                            <<idx[t] + 1, Len(op[t].bufs),
                              CInt(op[t].bufs[idx[t] + 1])>>),
                   bound[t]))
             /\ UNCHANGED <<op, aborted, before>>
        ELSE IF Deref(it).kind # "buffer"
        THEN \/ Abort(t)
             \/ /\ LoopOrDispatch(t, op[t].ptr, idx[t] + 1,
                                  SetBuffer(bound[t], it, idx[t]))
                /\ UNCHANGED <<op, aborted, before>>
        ELSE /\ LoopOrDispatch(t, op[t].ptr, idx[t] + 1,
                               SetBuffer(bound[t], it, idx[t]))
             /\ UNCHANGED <<op, aborted, before>>

\* item = cache[cacheId - 1]; } return item;
CrRead(t) ==
  /\ pc[t] = "cr_read"
  /\ lockHolder' = SyncExit(lockHolder, t)
  /\ \E v \in ReadSlot(RetrieveIndex(cacheId[t])) : AfterRetrieve(t, v)
  /\ UNCHANGED <<cacheVars, objs, issued>>

\* The device runs the committed command buffer: the kernel runs once for
\* every work item, and the command buffer is completed.
DeviceComplete(t) ==
  /\ pc[t] = "rf_wait"
  /\ cmdBuf[t].status = "committed"
  /\ LET items == Executed(cmdBuf[t].grid, cmdBuf[t].group)
     IN /\ cmdBuf' = [cmdBuf EXCEPT ![t].status = "completed",
                                    ![t].items = items]
        /\ objs' = KernelWrites(Deref(op[t].ptr), bound[t], items)
  /\ UNCHANGED <<cacheVars, lockHolder, aborted, pc, op, stage, item, cacheId,
                 size, idx, bound, res, before, issued>>

\* The device gives the committed command buffer up: its status becomes
\* MTLCommandBufferStatusError and no work item is recorded as run.  Used
\* where the kernels write nothing.
DeviceFail(t) ==
  /\ pc[t] = "rf_wait"
  /\ cmdBuf[t].status = "committed"
  /\ cmdBuf' = [cmdBuf EXCEPT ![t].status = "error"]
  /\ UNCHANGED <<cacheVars, lockHolder, objs, aborted, pc, op, stage, item,
                 cacheId, size, idx, bound, res, before, issued>>

\* [commandBuffer waitUntilCompleted]; metal_runFunction returns with no
\* error set, and Run returns nil.
WaitUntilCompleted(t) ==
  /\ pc[t] = "rf_wait"
  /\ Completed(cmdBuf[t].status)
  /\ Finish(t, [RunResult(NoMsg, bound[t]) EXCEPT
                  !.grid = cmdBuf[t].grid,
                  !.group = cmdBuf[t].group,
                  !.ptr = op[t].ptr,
                  !.status = cmdBuf[t].status,
                  !.items = cmdBuf[t].items,
                  !.commits = cmdBuf[t].commits])
  /\ UNCHANGED <<cacheVars, lockHolder, objs, aborted, op, before, issued>>

\* ----------------------------------------------------------- cache_remove
\* @synchronized(cacheLock) { NSCAssert(cacheId >= 1); NSCAssert(cacheId <=
\* numItems);
RmEnter(t) ==
  /\ pc[t] = "rm_enter"
  /\ SyncCanEnter(cacheLock, lockHolder, t)
  /\ IF cacheId[t] >= 1 /\ cacheId[t] <= numItems
     THEN /\ lockHolder' = SyncEnter(cacheLock, lockHolder, t)
          /\ Goto(t, "rm_write")
          /\ UNCHANGED <<stage, localVars>>
     ELSE Abort(t)
  /\ UNCHANGED <<cacheVars, objs, issued>>

\* cache[cacheId - 1] = nil; }
RmWrite(t) ==
  /\ pc[t] = "rm_write"
  /\ cache' = WriteSlot(RemoveIndex(cacheId[t]), NIL)
  /\ lockHolder' = SyncExit(lockHolder, t)
  /\ Finish(t, NoRes)
  /\ UNCHANGED <<numItems, cacheLock, cacheStale, objs, aborted, op, before,
                 issued>>

\* ------------------------------------------------------- public operations
\* NewFunction and metal_newFunction up to the call of cache_cache.
CallNewFunction(t, wide) ==
  /\ pc[t] = "idle"
  /\ Len(objs) < MaxItems
  /\ \E src \in NewSources(wide), fname \in NewNames(wide),
        po \in Outcomes(wide), qo \in Outcomes(wide) :
       LET fail(msg, st) ==
             /\ Finish(t, [NoRes EXCEPT !.err = metalErrToError(
                    logError(msg, <<>>), "Unable to set up metal function"),
                                        !.stages = st])
             /\ UNCHANGED objs
       IN
       /\ op' = [op EXCEPT ![t] = [NoOp EXCEPT !.kind = "NewFunction",
                                                !.src = src, !.fname = fname,
                                                !.dev = <<po, qo>>]]
       /\ IF Missing(src) THEN fail(Str("Missing metal code"), <<>>)
          ELSE IF Missing(fname) THEN fail(Str("Missing function name"), <<>>)
          ELSE IF FirstFailure(src, fname, po, qo) > 0
          THEN fail(StageError(FirstFailure(src, fname, po, qo), fname),
                    SubSeq(Stages, 1, FirstFailure(src, fname, po, qo)))
          ELSE /\ objs' = Append(objs, [kind |-> "function", name |-> fname,
                                        bytes |-> 0,
                                        tew |-> ThreadExecutionWidth,
                                        maxT |-> MaxTotalThreadsPerThreadgroup,
                                        data |-> <<>>])
               /\ item' = [item EXCEPT ![t] = Len(objs) + 1]
               /\ pc' = [pc EXCEPT ![t] = "cc_enter"]
               /\ UNCHANGED <<res, stage, cacheId, size, idx, bound, cmdBuf>>
  /\ before' = [before EXCEPT ![t] = Snapshot(wide)]
  /\ UNCHANGED <<cacheVars, lockHolder, aborted, issued>>

\* numBytes := sizeof[T]() * numElems, a Go int.
NumBytes(dims) == ElemSize * Product(dims)

\* The size metal_newBuffer receives: C.int(numBytes) keeps the low bits of
\* the Go int.
BufferNewSize(numBytes) == CInt(numBytes)

\* newBuffer and metal_newBuffer up to the call of cache_cache, for
\* dimensions and a device answer out of the sets given.
CallNewBufferWith(t, dimLists, outcomes, snap) ==
  /\ pc[t] = "idle"
  /\ Len(objs) < MaxItems
  /\ \E dims \in dimLists, bo \in outcomes :
       LET numBytes == NumBytes(dims)
           length == BufferNewSize(numBytes) IN
       /\ op' = [op EXCEPT ![t] = [NoOp EXCEPT !.kind = "NewBuffer",
                                                !.dims = dims]]
       /\ IF Len(dims) = 0
          THEN /\ Finish(t, [NoRes EXCEPT !.err = GoError("Missing dimension(s)")])
               /\ UNCHANGED objs
          ELSE IF BadDim(dims)
          THEN /\ Finish(t, [NoRes EXCEPT
                          !.err = GoError("Invalid number of elements")])
               /\ UNCHANGED objs
          ELSE IF bo = "fail" \/ length < 1
          THEN /\ Finish(t, [NoRes EXCEPT !.err = metalErrToError(
                      logError(Str("Failed to create buffer with %d bytes"),
                               <<length>>),
                      "Unable to create buffer")])
               /\ UNCHANGED objs
          ELSE /\ objs' = Append(objs, [kind |-> "buffer", name |-> "",
                                        bytes |-> length, tew |-> 0,
                                        maxT |-> 0,
                                        data |-> ZeroFilled(length \div ElemSize)])
               /\ item' = [item EXCEPT ![t] = Len(objs) + 1]
               /\ pc' = [pc EXCEPT ![t] = "cc_enter"]
               /\ UNCHANGED <<res, stage, cacheId, size, idx, bound, cmdBuf>>
  /\ before' = [before EXCEPT ![t] = snap]
  /\ UNCHANGED <<cacheVars, lockHolder, aborted, issued>>

CallNewBuffer(t, wide) ==
  CallNewBufferWith(t, NewDims(wide), Outcomes(wide), Snapshot(wide))

\* Run up to the first cache_retrieve of metal_runFunction, for a function
\* Id, a grid and a list of buffer Ids out of the sets given.
CallRunWith(t, fids, grids, lists) ==
  /\ pc[t] = "idle"
  /\ \E fid \in fids, g \in grids, bufs \in lists :
       /\ op' = [op EXCEPT ![t] = [NoOp EXCEPT !.kind = "Run", !.fid = fid,
                                                !.grid = g, !.bufs = bufs]]
       /\ cacheId' = [cacheId EXCEPT ![t] = CInt(fid)]
  /\ stage' = [stage EXCEPT ![t] = "fn"]
  /\ pc' = [pc EXCEPT ![t] = "cr_enter"]
  /\ UNCHANGED <<cacheVars, lockHolder, objs, aborted, item, size, idx, bound,
                 cmdBuf, res, before, issued>>

CallRun(t, wide) ==
  CallRunWith(t, RunFids(wide), RunGrids(wide), RunLists(wide))

\* String up to the cache_retrieve of function_name.
CallName(t) ==
  /\ pc[t] = "idle"
  /\ \E fid \in HandleInputs :
       /\ op' = [op EXCEPT ![t] = [NoOp EXCEPT !.kind = "Name", !.fid = fid]]
       /\ IF ~Valid(fid)
          THEN Finish(t, [NoRes EXCEPT !.name = ""])
          ELSE /\ cacheId' = [cacheId EXCEPT ![t] = CInt(fid)]
               /\ pc' = [pc EXCEPT ![t] = "cr_enter"]
               /\ UNCHANGED <<res, stage, item, size, idx, bound, cmdBuf>>
  /\ UNCHANGED <<cacheVars, lockHolder, objs, aborted, before, issued>>

\* BufferId.Valid and Function.Valid: the whole call.
CallValid(t) ==
  /\ pc[t] = "idle"
  /\ \E id \in HandleInputs :
       /\ op' = [op EXCEPT ![t] = [NoOp EXCEPT !.kind = "Valid", !.fid = id]]
       /\ Finish(t, [NoRes EXCEPT !.valid = Valid(id)])
  /\ UNCHANGED <<cacheVars, lockHolder, objs, aborted, before, issued>>

\* A direct call of cache_cache with no item; the calls with an item are
\* those of metal_newFunction and metal_newBuffer.
CallStore(t) ==
  /\ pc[t] = "idle"
  /\ item' = [item EXCEPT ![t] = NIL]
  /\ op' = [op EXCEPT ![t] = [NoOp EXCEPT !.kind = "Store"]]
  /\ pc' = [pc EXCEPT ![t] = "cc_enter"]
  /\ UNCHANGED <<cacheVars, lockHolder, objs, aborted, stage, cacheId, size,
                 idx, bound, cmdBuf, res, before, issued>>

\* A direct call of cache_retrieve.
CallRetrieve(t) ==
  /\ pc[t] = "idle"
  /\ \E h \in HandleInputs :
       /\ op' = [op EXCEPT ![t] = [NoOp EXCEPT !.kind = "Retrieve", !.fid = h]]
       /\ cacheId' = [cacheId EXCEPT ![t] = h]
  /\ pc' = [pc EXCEPT ![t] = "cr_enter"]
  /\ UNCHANGED <<cacheVars, lockHolder, objs, aborted, stage, item, size, idx,
                 bound, cmdBuf, res, before, issued>>

\* A direct call of cache_remove; snap is the cache as the call finds it.
CallRemoveWith(t, snap) ==
  /\ pc[t] = "idle"
  /\ \E h \in HandleInputs :
       /\ op' = [op EXCEPT ![t] = [NoOp EXCEPT !.kind = "Remove", !.fid = h]]
       /\ cacheId' = [cacheId EXCEPT ![t] = h]
  /\ pc' = [pc EXCEPT ![t] = "rm_enter"]
  /\ before' = [before EXCEPT ![t] = snap]
  /\ UNCHANGED <<cacheVars, lockHolder, objs, aborted, stage, item, size, idx,
                 bound, cmdBuf, res, issued>>

CallRemove(t) == CallRemoveWith(t, NoSnap)

\* The caller takes the result; the thread is free for its next call.
Return(t) ==
  /\ pc[t] = "done"
  /\ pc' = [pc EXCEPT ![t] = "idle"]
  /\ op' = [op EXCEPT ![t] = NoOp]
  /\ res' = [res EXCEPT ![t] = NoRes]
  /\ before' = [before EXCEPT ![t] = NoSnap]
  /\ UNCHANGED <<cacheVars, lockHolder, objs, aborted, stage, localVars,
                 issued>>

\* ------------------------------------------------------------------ Next
\* Any number of callers at once.
Next ==
  \E t \in Threads :
    \/ CallNewFunction(t, FALSE)
    \/ CallNewBuffer(t, FALSE)
    \/ CallRun(t, FALSE)
    \/ CallName(t)
    \/ CallStore(t)
    \/ CallRetrieve(t)
    \/ CallRemove(t)
    \/ CcEnter(t)
    \/ CcInc(t)
    \/ CcRealloc(t)
    \/ CcAssign(t)
    \/ CcWrite(t)
    \/ CcId(t)
    \/ CrEnter(t)
    \/ CrRead(t)
    \/ RmEnter(t)
    \/ RmWrite(t)
    \/ DeviceComplete(t)
    \/ WaitUntilCompleted(t)
    \/ Return(t)

Spec == Init /\ [][Next]_vars

\* The cache alone under a fair scheduler: threads call cache_cache (with an
\* item through NewBuffer, without one directly), cache_retrieve and
\* cache_remove at will; a thread inside a call keeps being scheduled, and
\* one waiting at @synchronized enters if the lock is free again and again.
CacheCall(t) ==
  \/ CallNewBuffer(t, FALSE)
  \/ CallStore(t)
  \/ CallRetrieve(t)
  \/ CallRemove(t)
  \/ Return(t)

CacheStep(t) ==
  \/ CcEnter(t)
  \/ CcInc(t)
  \/ CcRealloc(t)
  \/ CcAssign(t)
  \/ CcWrite(t)
  \/ CcId(t)
  \/ CrEnter(t)
  \/ CrRead(t)
  \/ RmEnter(t)
  \/ RmWrite(t)

NextCache == \E t \in Threads : CacheCall(t) \/ CacheStep(t)

SpecCacheFair ==
  /\ Init
  /\ [][NextCache]_vars
  /\ \A t \in Threads : SF_vars(CacheStep(t))

\* Thread t is the only one inside a call or holding a result.
Alone(t) == \A u \in Threads \ {t} : pc[u] = "idle"

\* One caller at a time: a thread moves only while every other is idle.
NextSeq ==
  \E t \in Threads :
    \/ Alone(t) /\ CallNewFunction(t, TRUE)
    \/ Alone(t) /\ CallNewBuffer(t, TRUE)
    \/ Alone(t) /\ CallRun(t, TRUE)
    \/ Alone(t) /\ CallName(t)
    \/ Alone(t) /\ CallStore(t)
    \/ Alone(t) /\ CallRetrieve(t)
    \/ Alone(t) /\ CallRemoveWith(t, Snapshot(TRUE))
    \/ Alone(t) /\ CcEnter(t)
    \/ Alone(t) /\ CcInc(t)
    \/ Alone(t) /\ CcRealloc(t)
    \/ Alone(t) /\ CcAssign(t)
    \/ Alone(t) /\ CcWrite(t)
    \/ Alone(t) /\ CcId(t)
    \/ Alone(t) /\ CrEnter(t)
    \/ Alone(t) /\ CrRead(t)
    \/ Alone(t) /\ RmEnter(t)
    \/ Alone(t) /\ RmWrite(t)
    \/ Alone(t) /\ DeviceComplete(t)
    \/ Alone(t) /\ WaitUntilCompleted(t)
    \/ Alone(t) /\ Return(t)

SpecSeq == Init /\ [][NextSeq]_vars

\* The public API alone, one caller at a time: NewFunction, NewBuffer,
\* String and Run, with every input the wide sets hold and the shape too
\* large for a C int.
NextApi ==
  \E t \in Threads :
    \/ Alone(t) /\ CallNewFunction(t, TRUE)
    \/ Alone(t) /\ CallNewBufferWith(t, ApiDims, Outcomes(TRUE), Snapshot(TRUE))
    \/ Alone(t) /\ CallRun(t, TRUE)
    \/ Alone(t) /\ CallName(t)
    \/ Alone(t) /\ CallValid(t)
    \/ Alone(t) /\ CcEnter(t)
    \/ Alone(t) /\ CcInc(t)
    \/ Alone(t) /\ CcRealloc(t)
    \/ Alone(t) /\ CcAssign(t)
    \/ Alone(t) /\ CcWrite(t)
    \/ Alone(t) /\ CcId(t)
    \/ Alone(t) /\ CrEnter(t)
    \/ Alone(t) /\ CrRead(t)
    \/ Alone(t) /\ DeviceComplete(t)
    \/ Alone(t) /\ DeviceFail(t)
    \/ Alone(t) /\ WaitUntilCompleted(t)
    \/ Alone(t) /\ Return(t)

SpecApi == Init /\ [][NextApi]_vars

\* ----------------------------------------------------- buffer contents
\* The caller stores v in element e of the view newBuffer returned with a
\* buffer.  The view is the buffer's own memory (toSlice makes a slice over
\* [buffer contents]), so the store lands in buffer p.
WriteView(t) ==
  /\ pc[t] = "idle"
  /\ \E p \in 1..Len(objs), v \in DataValues :
       /\ objs[p].kind = "buffer"
       /\ \E e \in 1..Len(objs[p].data) :
            objs' = [objs EXCEPT ![p].data[e] = v]
  /\ UNCHANGED <<cacheVars, lockHolder, aborted, pc, op, stage, localVars,
                 res, before, issued>>

\* The state Test_FunctionId_Run_1D has built before its first Run: the
\* transfer kernel under Id 1 and two 1-D buffers of DataLen elements
\* under Ids 2 and 3.
InitData ==
  /\ cache = <<1, 2, 3>>
  /\ numItems = 3
  /\ cacheLock = cache_init
  /\ lockHolder = NoThread
  /\ cacheStale = FALSE
  /\ objs = <<[kind |-> "function", name |-> "transfer", bytes |-> 0,
               tew |-> ThreadExecutionWidth,
               maxT |-> MaxTotalThreadsPerThreadgroup, data |-> <<>>],
              [kind |-> "buffer", name |-> "", bytes |-> ElemSize * DataLen,
               tew |-> 0, maxT |-> 0, data |-> ZeroFilled(DataLen)],
              [kind |-> "buffer", name |-> "", bytes |-> ElemSize * DataLen,
               tew |-> 0, maxT |-> 0, data |-> ZeroFilled(DataLen)]>>
  /\ aborted = FALSE
  /\ pc = [t \in Threads |-> "idle"]
  /\ op = [t \in Threads |-> NoOp]
  /\ stage = [t \in Threads |-> "none"]
  /\ item = [t \in Threads |-> NIL]
  /\ cacheId = [t \in Threads |-> 0]
  /\ size = [t \in Threads |-> 0]
  /\ idx = [t \in Threads |-> 0]
  /\ bound = [t \in Threads |-> <<>>]
  /\ cmdBuf = [t \in Threads |-> NoCmd]
  /\ res = [t \in Threads |-> NoRes]
  /\ before = [t \in Threads |-> NoSnap]
  /\ issued = <<<<1, 1>>, <<2, 2>>, <<3, 3>>>>

\* One caller at a time writes the views and runs the transfer kernel.
NextData ==
  \E t \in Threads :
    \/ Alone(t) /\ WriteView(t)
    \/ Alone(t) /\ CallRunWith(t, DataFids, DataGrids, DataLists)
    \/ Alone(t) /\ CrEnter(t)
    \/ Alone(t) /\ CrRead(t)
    \/ Alone(t) /\ DeviceComplete(t)
    \/ Alone(t) /\ WaitUntilCompleted(t)
    \/ Alone(t) /\ Return(t)

SpecData == InitData /\ [][NextData]_vars

\* ------------------------------------------------------- pipeline limits
\* The largest maxTotalThreadsPerThreadgroup a pipeline reports here, and
\* the grids run on it.
MaxGroupThreads == 6
GroupGrids == {<<1, 0, 0>>, <<3, 2, 1>>}

\* One kernel under Id 1 whose pipeline reports any limits with
\* 1 <= threadExecutionWidth <= maxTotalThreadsPerThreadgroup.
InitGroup ==
  /\ cache = <<1>>
  /\ numItems = 1
  /\ cacheLock = cache_init
  /\ lockHolder = NoThread
  /\ cacheStale = FALSE
  /\ \E m \in 1..MaxGroupThreads, w \in 1..MaxGroupThreads :
       /\ w <= m
       /\ objs = <<[kind |-> "function", name |-> "a", bytes |-> 0,
                    tew |-> w, maxT |-> m, data |-> <<>>]>>
  /\ aborted = FALSE
  /\ pc = [t \in Threads |-> "idle"]
  /\ op = [t \in Threads |-> NoOp]
  /\ stage = [t \in Threads |-> "none"]
  /\ item = [t \in Threads |-> NIL]
  /\ cacheId = [t \in Threads |-> 0]
  /\ size = [t \in Threads |-> 0]
  /\ idx = [t \in Threads |-> 0]
  /\ bound = [t \in Threads |-> <<>>]
  /\ cmdBuf = [t \in Threads |-> NoCmd]
  /\ res = [t \in Threads |-> NoRes]
  /\ before = [t \in Threads |-> NoSnap]
  /\ issued = <<<<1, 1>>>>

\* One caller at a time runs the kernel.
NextGroup ==
  \E t \in Threads :
    \/ Alone(t) /\ CallRunWith(t, {1}, GroupGrids, {<<>>})
    \/ Alone(t) /\ CrEnter(t)
    \/ Alone(t) /\ CrRead(t)
    \/ Alone(t) /\ DeviceComplete(t)
    \/ Alone(t) /\ WaitUntilCompleted(t)
    \/ Alone(t) /\ Return(t)

SpecGroup == InitGroup /\ [][NextGroup]_vars

\* ----------------------------------------------------------- buffer views
\* The caller that holds the view a NewBuffer call returned stores v in
\* the element an index tuple names.
WriteThroughView(t) ==
  /\ pc[t] = "done"
  /\ op[t].kind = "NewBuffer"
  /\ res[t].err = NoErr
  /\ \E ix \in ViewIndices(res[t].view, Len(op[t].dims)), v \in DataValues :
       objs' = [objs EXCEPT
                  ![res[t].ptr].data[ViewAt(res[t].view, ix) + 1] = v]
  /\ UNCHANGED <<cacheVars, lockHolder, aborted, pc, op, stage, localVars,
                 res, before, issued>>

\* One buffer of two or three dimensions is created and its caller writes
\* through the view.
NextView ==
  \E t \in Threads :
    \/ Alone(t) /\ CallNewBufferWith(t, ViewShapes, {"ok"}, NoSnap)
    \/ Alone(t) /\ CcEnter(t)
    \/ Alone(t) /\ CcInc(t)
    \/ Alone(t) /\ CcRealloc(t)
    \/ Alone(t) /\ CcAssign(t)
    \/ Alone(t) /\ CcWrite(t)
    \/ Alone(t) /\ CcId(t)
    \/ Alone(t) /\ CrEnter(t)
    \/ Alone(t) /\ CrRead(t)
    \/ Alone(t) /\ WriteThroughView(t)

SpecView == Init /\ [][NextView]_vars

\* ------------------------------------------------------------ properties
CreationKinds == {"NewFunction", "NewBuffer"}

\* Thread t is between the entry and the exit of a @synchronized block.
InCacheCache(t) ==
  pc[t] \in {"cc_inc", "cc_realloc", "cc_assign", "cc_write", "cc_id"}
InSection(t) == InCacheCache(t) \/ pc[t] \in {"cr_read", "rm_write"}

\* The Ids cache_cache has returned, and the item each was returned for.
Handles == {issued[i][1] : i \in 1..Len(issued)}
ItemOf(h) == issued[CHOOSE i \in 1..Len(issued) : issued[i][1] = h][2]
Last(s) == s[Len(s)]

\* A creating call of thread t has returned, with or without an error.
Succeeded(t) ==
  pc[t] = "done" /\ op[t].kind \in CreationKinds /\ res[t].err = NoErr
Failed(t) ==
  pc[t] = "done" /\ op[t].kind \in CreationKinds /\ res[t].err # NoErr

\* Id h is in range and its slot holds an item.
Resolves(h) == h >= 1 /\ h <= numItems /\ h <= Len(cache) /\ cache[h] # NIL

\* C1: concurrent creating calls receive distinct Ids without gaps: no Id is
\* issued twice, every issued Id lies in 1..numItems, whenever no thread is
\* inside cache_cache the issued Ids are exactly 1..numItems, and the Id a
\* creating call returns is the one issued for its own resource.
C1_ConcurrentHandlesDistinctGapFree ==
  /\ \A i, j \in 1..Len(issued) : issued[i][1] = issued[j][1] => i = j
  /\ Handles \subseteq 1..numItems
  /\ (~aborted /\ \A t \in Threads : ~InCacheCache(t)) => Handles = 1..numItems
  /\ \A t \in Threads :
       Succeeded(t) => /\ res[t].id \in Handles
                       /\ ItemOf(res[t].id) = res[t].ptr
  /\ \A t, u \in Threads :
       (t # u /\ Succeeded(t) /\ Succeeded(u)) => res[t].id # res[u].id

\* Both threads hold the result of a creating call; thread 1 created its
\* resource first and received the later Id, so the two calls overlapped.
C1_Witness ==
  /\ Succeeded(1) /\ Succeeded(2)
  /\ res[1].ptr < res[2].ptr
  /\ res[1].id = 2 /\ res[2].id = 1

\* C2: with callers taking turns, the k-th Id cache_cache returns is k,
\* whether for a kernel or a buffer; a creating call that succeeds returns
\* the count it found plus 1, and one that fails leaves the count as it
\* found it.
C2_KthStoreReturnsK ==
  /\ \A i \in 1..Len(issued) : issued[i][1] = i
  /\ \A t \in Threads :
       /\ Succeeded(t) => /\ res[t].id = before[t].n + 1
                          /\ numItems = before[t].n + 1
                          /\ Len(issued) = numItems
       /\ Failed(t) => /\ numItems = before[t].n
                       /\ Len(issued) = numItems

\* A buffer has just received Id 2 after a kernel received Id 1.
C2_Witness ==
  \E t \in Threads :
    /\ Succeeded(t) /\ op[t].kind = "NewBuffer" /\ res[t].id = 2
    /\ 1 \in Handles /\ Deref(ItemOf(1)).kind = "function"

\* C3: a lookup of an issued Id returns the item that Id was issued for (or
\* nil once the slot has been removed), never another item and never an
\* unwritten slot; the name of an issued kernel Id is the name its creator
\* compiled; a creating call returns its own resource under its Id.
C3_RetrieveReturnsOwnResource ==
  \A t \in Threads :
    /\ (pc[t] = "done" /\ op[t].kind = "Retrieve" /\ op[t].fid \in Handles)
         => \/ res[t].ptr = ItemOf(op[t].fid)
            \/ res[t].ptr = NIL /\ cache[op[t].fid] = NIL
    /\ (/\ pc[t] = "done" /\ op[t].kind = "Name" /\ op[t].fid \in Handles
        /\ Deref(ItemOf(op[t].fid)).kind = "function")
         => \/ res[t].name = Deref(ItemOf(op[t].fid)).name
            \/ res[t].name = "" /\ cache[op[t].fid] = NIL
    /\ Succeeded(t)
         => /\ res[t].id \in Handles
            /\ ItemOf(res[t].id) = res[t].ptr
            /\ op[t].kind = "NewFunction"
                 => /\ Deref(res[t].ptr).kind = "function"
                    /\ Deref(res[t].ptr).name = op[t].fname
            /\ op[t].kind = "NewBuffer" => Deref(res[t].ptr).kind = "buffer"

\* Two overlapping creating calls have returned (the later-created resource
\* holds Id 1) and a lookup of Id 2 has returned the first-created resource.
C3_Witness ==
  /\ Len(issued) = 2
  /\ Handles = {1, 2}
  /\ ItemOf(1) = 2 /\ ItemOf(2) = 1
  /\ \E t \in Threads :
       /\ pc[t] = "done" /\ op[t].kind = "Retrieve" /\ op[t].fid = 2
       /\ res[t].ptr = 1

\* C4: at most one thread is inside a @synchronized block of the cache and
\* it holds the lock; a thread about to read or clear a slot finds the array
\* assigned, as long as the count, and the slot written.
C4_CacheAccessMutuallyExclusive ==
  /\ \A t, u \in Threads : t # u => ~(InSection(t) /\ InSection(u))
  /\ \A t \in Threads : InSection(t) => lockHolder = t
  /\ \A t \in Threads :
       pc[t] \in {"cr_read", "rm_write"}
         => /\ ~cacheStale
            /\ Len(cache) = numItems
            /\ cacheId[t] \in 1..Len(cache)
            /\ cache[cacheId[t]] # UNINIT

\* A lookup of an existing Id waits at the lock while a store is between
\* realloc's call and the assignment of the new array.
C4_Witness ==
  \E t, u \in Threads :
    /\ pc[u] = "cc_assign" /\ cacheStale
    /\ pc[t] = "cr_enter" /\ op[t].kind = "Retrieve"
    /\ cacheId[t] >= 1 /\ cacheId[t] < numItems

\* C5: no step shortens the cache or lowers the count; a written slot keeps
\* its item or becomes nil; the slot of every issued Id holds the item the
\* Id was issued for, or nil.
C5_AppendOrClearOnly ==
  [][/\ numItems' >= numItems
     /\ Len(cache') >= Len(cache)
     /\ \A k \in 1..Len(cache) :
          cache[k] # UNINIT => cache'[k] \in {cache[k], NIL}
     /\ \A i \in 1..Len(issued') :
          cache'[issued'[i][1]] \in {issued'[i][2], NIL}]_vars

\* Slot 0 has been cleared and slot 1 stored afterwards is in place.
C5_Witness ==
  /\ Len(cache) = 2 /\ numItems = 2
  /\ cache[1] = NIL
  /\ 2 \in Handles /\ cache[2] = ItemOf(2) /\ cache[2] # NIL

\* C6: the step that completes cache_remove(h) clears slot h-1 and leaves
\* the count, the length and every other slot alone; a lookup returns what
\* its slot holds (nil for a removed slot); the Id a store returns is the
\* length of the cache and has not been issued before.
C6_RemoveClearsOneSlot ==
  [][\A t \in Threads :
       /\ (pc[t] = "rm_write" /\ pc'[t] = "done")
            => /\ numItems' = numItems
               /\ Len(cache') = Len(cache)
               /\ cache'[cacheId[t]] = NIL
               /\ \A k \in 1..Len(cache) :
                    k # cacheId[t] => cache'[k] = cache[k]
       /\ (pc[t] = "cr_read" /\ pc'[t] = "done" /\ op[t].kind = "Retrieve")
            => /\ res'[t].ptr = cache[op[t].fid]
               /\ cache' = cache
       /\ (pc[t] = "cc_id" /\ pc'[t] \in {"done", "cr_enter"})
            => /\ Last(issued')[1] = Len(cache)
               /\ Len(cache) = numItems
               /\ Last(issued')[1] \notin Handles]_vars

\* A lookup of a removed Id has returned nil while a later Id, issued after
\* the removal, is still in its slot.
C6_Witness ==
  \E t \in Threads :
    /\ pc[t] = "done" /\ op[t].kind = "Retrieve" /\ op[t].fid = 1
    /\ res[t].ptr = NIL
    /\ numItems = 2 /\ cache[1] = NIL /\ Resolves(2)

\* C7: cache_retrieve and cache_remove called with an Id below 1 or above
\* the count return to their caller (the process does not end), and a
\* lookup that returned for an Id that does not resolve returned nil.
C7_InvalidHandleReportsFailure ==
  \A t \in Threads :
    /\ (/\ op[t].kind \in {"Retrieve", "Remove"}
        /\ (op[t].fid < 1 \/ op[t].fid > numItems))
         => pc[t] # "aborted"
    /\ (pc[t] = "done" /\ op[t].kind = "Retrieve" /\ ~Resolves(op[t].fid))
         => res[t].ptr = NIL

\* C8: Run with a kernel Id that does not resolve returns "Failed to
\* retrieve function" and looks no buffer Id up.
C8_UnresolvedKernelFunctionNotFound ==
  \A t \in Threads :
    (op[t].kind = "Run" /\ ~Resolves(op[t].fid))
      => /\ pc[t] # "aborted"
         /\ stage[t] # "buf"
         /\ pc[t] = "done"
              => /\ res[t].err = metalErrToError(
                        Str("Failed to retrieve function"),
                        "Unable to run metal function")
                 /\ res[t].bufs = <<>>

\* The lowest position of bufs whose Id does not resolve (0 if all do).
FirstUnresolved(bufs) ==
  IF \A i \in 1..Len(bufs) : Resolves(bufs[i]) THEN 0
  ELSE CHOOSE i \in 1..Len(bufs) :
         /\ ~Resolves(bufs[i])
         /\ \A j \in 1..(i - 1) : Resolves(bufs[j])

\* C9: Run on a kernel whose command buffer and encoder were set up, with
\* buffer Ids of which position i (1-based) is the first that does not
\* resolve, returns "Failed to retrieve buffer i/n using Id h" with n the
\* number of Ids and h the failing Id.
C9_BufferNotFoundCarriesPosition ==
  \A t \in Threads :
    LET bufs == op[t].bufs
        i == FirstUnresolved(bufs)
    IN (/\ op[t].kind = "Run"
        /\ pc[t] \in {"done", "aborted"}
        /\ Resolves(op[t].fid)
        /\ Deref(cache[op[t].fid]).kind = "function"
        /\ i > 0
        /\ \A j \in 1..(i - 1) : Deref(cache[bufs[j]]).kind = "buffer")
         => /\ pc[t] = "done"
            /\ \/ res[t].err.text \in {"Failed to set up command buffer",
                                       "Failed to set up compute encoder"}
               \/ res[t].err = metalErrToError(
                    stringWithFormat(
                      "Failed to retrieve buffer %d/%d using Id %d",
                      <<i, Len(bufs), bufs[i]>>),
                    "Unable to run metal function")

\* C10: with callers taking turns, a creating call that returned an error
\* left the count, the array and the issued Ids as it found them; one that
\* returned an Id returned a valid Id whose slot holds the resource the call
\* created, which a lookup of the Id yields.
C10_NoPartialSuccess ==
  \A t \in Threads :
    /\ Failed(t) => /\ numItems = before[t].n
                    /\ cache = before[t].c
                    /\ Len(issued) = before[t].n
                    /\ res[t].id = 0
    /\ Succeeded(t) => /\ Valid(res[t].id)
                       /\ res[t].id = numItems
                       /\ res[t].ptr = Len(objs)
                       /\ ReadSlot(RetrieveIndex(res[t].id)) = {res[t].ptr}
                       /\ Deref(res[t].ptr).kind =
                            (IF op[t].kind = "NewFunction" THEN "function"
                             ELSE "buffer")

\* After one resource was registered, a creating call has failed at the
\* device and returned its error.
C10_Witness ==
  \E t \in Threads :
    /\ Failed(t)
    /\ res[t].err.text \in {"Failed to create pipeline (see console log)",
                            "Failed to create buffer with %d bytes"}
    /\ before[t].n = 1 /\ numItems = 1 /\ Resolves(1)

\* C11: with callers taking turns, newBuffer called with no dimension or
\* with a dimension below 1 returns an error ("Missing dimension(s)" for the
\* empty list, else "Invalid number of elements"), Id 0 and no slice; no
\* buffer was requested from the device and the cache is as the call found
\* it.
C11_InvalidDimensionsRejected ==
  \A t \in Threads :
    (/\ pc[t] = "done" /\ op[t].kind = "NewBuffer"
     /\ (Len(op[t].dims) = 0 \/ \E k \in 1..Len(op[t].dims) : op[t].dims[k] < 1))
      => /\ res[t].err = (IF Len(op[t].dims) = 0
                          THEN GoError("Missing dimension(s)")
                          ELSE GoError("Invalid number of elements"))
         /\ res[t].id = 0
         /\ res[t].ptr = NIL
         /\ res[t].numElems = 0
         /\ Len(objs) = before[t].o
         /\ numItems = before[t].n
         /\ cache = before[t].c

\* A three-dimensional request with a zero height has been refused while
\* the cache holds one entry.
C11_Witness ==
  \E t \in Threads :
    /\ pc[t] = "done" /\ op[t].kind = "NewBuffer"
    /\ op[t].dims = <<1, 2, 0>>
    /\ res[t].err = GoError("Invalid number of elements")
    /\ numItems = 1

\* C12: NewFunction with an empty source returns "Missing metal code"
\* whatever the function name, and with a non-empty source and an empty
\* function name returns "Missing function name" whether or not the source
\* compiles; in both cases nothing was asked of the device.
C12_SourceCheckedBeforeName ==
  \A t \in Threads :
    (pc[t] = "done" /\ op[t].kind = "NewFunction")
      => /\ op[t].src = ""
              => /\ res[t].err = metalErrToError(Str("Missing metal code"),
                                    "Unable to set up metal function")
                 /\ res[t].stages = <<>>
                 /\ res[t].id = 0
         /\ (op[t].src # "" /\ op[t].fname = "")
              => /\ res[t].err = metalErrToError(Str("Missing function name"),
                                    "Unable to set up metal function")
                 /\ res[t].stages = <<>>
                 /\ res[t].id = 0

\* An empty source passed with a name the library would define has been
\* refused for the source.
C12_Witness ==
  \E t \in Threads :
    /\ pc[t] = "done" /\ op[t].kind = "NewFunction"
    /\ op[t].src = "" /\ op[t].fname = "a"
    /\ res[t].err.text = "Missing metal code"

\* The stages of thread t's NewFunction call that cannot succeed: the source
\* does not compile (1), the name is not in the library (2), the device
\* refuses the pipeline (3) or the queue (4).
FailingStages(t) ==
  {k \in 1..4 :
     \/ k = 1 /\ ~Compiles(op[t].src)
     \/ k = 2 /\ op[t].fname \notin Defines(op[t].src)
     \/ k = 3 /\ op[t].dev[1] = "fail"
     \/ k = 4 /\ op[t].dev[2] = "fail"}

C14_GridNormalizedAxisByAxis ==
  \A t \in Threads :
    (pc[t] = "done" /\ op[t].kind = "Run")
      => /\ res[t].err = NoErr
              => res[t].grid = <<Max(op[t].grid[1], 1), Max(op[t].grid[2], 1),
                                 Max(op[t].grid[3], 1)>>
         /\ (/\ op[t].grid = <<-1, -1, -1>>
             /\ Resolves(op[t].fid)
             /\ Deref(cache[op[t].fid]).kind = "function"
             /\ \A i \in 1..Len(op[t].bufs) :
                  /\ Resolves(op[t].bufs[i])
                  /\ Deref(cache[op[t].bufs[i]]).kind = "buffer")
              => \/ res[t].err = NoErr /\ res[t].grid = <<1, 1, 1>>
                 \/ res[t].err.text \in {"Failed to set up command buffer",
                                          "Failed to set up compute encoder"}

\* C15: every dispatch hands the device the thread-group shape
\* (warpWidth, maxGroupThreads div warpWidth, 1) of the kernel's pipeline,
\* whatever the grid is: the shape is a function of the kernel alone, so
\* dispatches of one kernel with different grids use the same shape.
C15_GroupShapeFromPipelineLimits ==
  \A t \in Threads :
    (pc[t] = "done" /\ op[t].kind = "Run" /\ res[t].err = NoErr)
      => LET k == Deref(cache[op[t].fid])
         IN /\ k.kind = "function"
            /\ res[t].group = <<k.tew, k.maxT \div k.tew, 1>>
            /\ \A g \in RunGrids(TRUE) :
                 op[t].grid = g
                   => res[t].group = <<ThreadExecutionWidth,
                                       MaxTotalThreadsPerThreadgroup
                                         \div ThreadExecutionWidth, 1>>

\* A grid of one work item is dispatched with the full group shape, which
\* the limits 5 and 2 make (2, 2, 1): the division rounds down.
C15_Witness ==
  \E t \in Threads :
    /\ pc[t] = "done" /\ op[t].kind = "Run" /\ res[t].err = NoErr
    /\ op[t].grid = <<-1, -1, -1>>
    /\ res[t].grid = <<1, 1, 1>>
    /\ res[t].group = <<2, 2, 1>>

\* C16: in a successful Run with buffer Ids b[0..n-1], argument index i of
\* the kernel is bound to the buffer b[i] resolves to, for every i and for
\* no other index, and an Id given at two positions binds one buffer at
\* both.
C16_ArgumentsBoundInOrder ==
  \A t \in Threads :
    (pc[t] = "done" /\ op[t].kind = "Run" /\ res[t].err = NoErr)
      => /\ Len(res[t].bufs) = Len(op[t].bufs)
         /\ \A i \in 1..Len(op[t].bufs) :
              /\ Resolves(op[t].bufs[i])
              /\ res[t].bufs[i] = cache[op[t].bufs[i]]
              /\ res[t].bufs[i] = ItemOf(op[t].bufs[i])
         /\ \A i, j \in 1..Len(op[t].bufs) :
              op[t].bufs[i] = op[t].bufs[j] => res[t].bufs[i] = res[t].bufs[j]

\* One buffer Id given twice: both arguments are bound to its buffer.
C16_Witness ==
  \E t \in Threads :
    /\ pc[t] = "done" /\ op[t].kind = "Run" /\ res[t].err = NoErr
    /\ Len(op[t].bufs) = 2
    /\ op[t].bufs[1] = op[t].bufs[2]
    /\ Len(res[t].bufs) = 2
    /\ res[t].bufs[1] = res[t].bufs[2]
    /\ Deref(res[t].bufs[1]).kind = "buffer"

GridPositions(grid) ==
  (0..(grid[1] - 1)) \X (0..(grid[2] - 1)) \X (0..(grid[3] - 1))

C19_IssuedHandlesKeepResolving ==
  (\A t \in Threads : pc[t] \in {"idle", "done"})
    => \A i \in 1..Len(issued) :
         /\ issued[i][1] >= 1
         /\ issued[i][1] <= numItems
         /\ ReadSlot(RetrieveIndex(issued[i][1])) = {issued[i][2]}
         /\ Deref(issued[i][2]).kind \in {"function", "buffer"}

\* A Run has failed after two creations succeeded and both Ids are still
\* in the cache.
C19_Witness ==
  \E t \in Threads :
    /\ pc[t] = "done" /\ op[t].kind = "Run" /\ res[t].err # NoErr
    /\ Len(issued) >= 2
    /\ Resolves(issued[1][1])
    /\ Resolves(issued[2][1])

\* C20: the view of a buffer of shape (L, W) names with [i][j] the flat
\* element i*W + j, and the view of a buffer of shape (L, W, H) names with
\* [i][j][k] the flat element (i*W + j)*H + k; every dimension of the view
\* has its length, and the index tuples and the flat elements 0..L*W*H-1
\* correspond one to one, so a value stored through an index is the value
\* of the buffer at the mapped flat position and of no other index.
C20_ViewsMapIndicesOntoFlatBlock ==
  \A t \in Threads :
    (pc[t] = "done" /\ op[t].kind = "NewBuffer" /\ res[t].err = NoErr)
      => LET d == op[t].dims
             v == res[t].view
             n == Product(d)
             ixs == ViewIndices(v, Len(d))
         IN /\ Len(objs[res[t].ptr].data) = n
            /\ (Len(d) = 2)
                 => /\ Len(v) = d[1]
                    /\ \A i \in 1..d[1] : Len(v[i]) = d[2]
                    /\ \A i \in 0..(d[1] - 1), j \in 0..(d[2] - 1) :
                         v[i + 1][j + 1] = i * d[2] + j
            /\ (Len(d) = 3)
                 => /\ Len(v) = d[1]
                    /\ \A i \in 1..d[1] :
                         /\ Len(v[i]) = d[2]
                         /\ \A j \in 1..d[2] : Len(v[i][j]) = d[3]
                    /\ \A i \in 0..(d[1] - 1), j \in 0..(d[2] - 1),
                          k \in 0..(d[3] - 1) :
                         v[i + 1][j + 1][k + 1] = (i * d[2] + j) * d[3] + k
            /\ Cardinality(ixs) = n
            /\ {ViewAt(v, ix) : ix \in ixs} = 0..(n - 1)
            /\ \A ix, iy \in ixs : ViewAt(v, ix) = ViewAt(v, iy) => ix = iy

\* Every index (i, j, k) of a view of shape (2, 3, 2) has been given the
\* value (i + j + k) mod 2, and the buffer holds it at (i*3 + j)*2 + k.
C20_Witness ==
  \E t \in Threads :
    /\ pc[t] = "done" /\ op[t].kind = "NewBuffer" /\ res[t].err = NoErr
    /\ op[t].dims = <<2, 3, 2>>
    /\ \A i \in 0..1, j \in 0..2, k \in 0..1 :
         /\ objs[res[t].ptr].data[(i * 3 + j) * 2 + k + 1] = (i + j + k) % 2
         /\ objs[res[t].ptr].data[res[t].view[i + 1][j + 1][k + 1] + 1]
              = (i + j + k) % 2

\* C21: in the view a successful NewBuffer returns for the dimensions
\* (d0[, d1[, d2]]), every slice at nesting level n has length d_n and
\* capacity d_n, so no slice has capacity beyond its length.
C21_ViewLengthsEqualCapacities ==
  \A t \in Threads :
    (pc[t] = "done" /\ op[t].kind = "NewBuffer" /\ res[t].err = NoErr)
      => /\ res[t].slices # {}
         /\ \A s \in res[t].slices :
              /\ s[1] \in 1..Len(op[t].dims)
              /\ s[2] = op[t].dims[s[1]]
              /\ s[3] = op[t].dims[s[1]]
         /\ \A n \in 1..Len(op[t].dims) : \E s \in res[t].slices : s[1] = n

\* A buffer of shape (2, 3, 2) has been returned: the outer slice, the
\* two second-level slices and the six innermost ones have lengths and
\* capacities 2, 3 and 2.
C21_Witness ==
  \E t \in Threads :
    /\ pc[t] = "done" /\ op[t].kind = "NewBuffer" /\ res[t].err = NoErr
    /\ op[t].dims = <<2, 3, 2>>
    /\ res[t].slices = {<<1, 2, 2>>, <<2, 3, 3>>, <<3, 2, 2>>}


C23_NameIsPureQuery ==
  [][\A t \in Threads :
       /\ (pc[t] = "idle" /\ op'[t].kind = "Name" /\ op'[t].fid <= 0)
            => /\ pc'[t] = "done"
               /\ res'[t].name = ""
               /\ UNCHANGED <<cacheVars, lockHolder>>
       /\ (op'[t].kind = "Name" /\ pc'[t] # pc[t])
            => /\ cache' = cache
               /\ numItems' = numItems
       /\ (/\ op'[t].kind = "Name" /\ pc[t] # "done" /\ pc'[t] = "done"
           /\ op'[t].fid \in Handles
           /\ Deref(ItemOf(op'[t].fid)).kind = "function")
            => res'[t].name = Deref(ItemOf(op'[t].fid)).name]_vars

C23_Witness ==
  \E t \in Threads :
    /\ pc[t] = "done" /\ op[t].kind = "Name"
    /\ op[t].fid = 2 /\ op[t].fid \in Handles
    /\ Deref(ItemOf(2)).kind = "function"
    /\ Deref(ItemOf(1)).name # Deref(ItemOf(2)).name
    /\ res[t].name = "b"
    /\ numItems = 2 /\ cache[1] # NIL /\ cache[2] # NIL

\* C24: a call of NewFunction or NewBuffer that has returned gives an Id
\* above zero exactly when it gives no error; a failed call gives Id 0, an
\* error and, for NewBuffer, no view.
C24_HandlePositiveIffNoError ==
  \A t \in Threads :
    (pc[t] = "done" /\ op[t].kind \in CreationKinds)
      => /\ (res[t].id > 0) <=> (res[t].err = NoErr)
         /\ res[t].err # NoErr
              => /\ res[t].id = 0
                 /\ res[t].view = <<>>
                 /\ res[t].slices = {}

C24_Witness ==
  \E t \in Threads :
    /\ Failed(t) /\ op[t].kind = "NewBuffer" /\ op[t].dims = <<2, 3>>
    /\ res[t].id = 0
    /\ res[t].err.wrap = "Unable to create buffer"
    /\ \E i \in 1..Len(issued) :
         issued[i][1] > 0 /\ Deref(issued[i][2]).kind = "buffer"

\* C25: Valid answers true exactly for the Ids above zero, whatever the
\* cache holds: false for zero and below, true for an Id above zero that
\* the cache never issued.
C25_ValidIffPositive ==
  \A t \in Threads :
    (pc[t] = "done" /\ op[t].kind = "Valid")
      => /\ res[t].valid <=> (op[t].fid >= 1)
         /\ (op[t].fid >= 1 /\ op[t].fid \notin Handles) => res[t].valid
         /\ (op[t].fid \in {-1, 0}) => ~res[t].valid

C25_Witness ==
  \E t \in Threads :
    /\ pc[t] = "done" /\ op[t].kind = "Valid"
    /\ op[t].fid = NeverIssued /\ NeverIssued \notin Handles
    /\ Handles # {}
    /\ res[t].valid

\* C26: no call of String, Run, NewFunction or NewBuffer ends the process,
\* whatever Ids, buffer Id lists and arguments it is given: each returns to
\* its caller.
C26_NoAbortOnBadInput ==
  \A t \in Threads :
    op[t].kind \in {"Name", "Run", "NewFunction", "NewBuffer"}
      => pc[t] # "aborted"

\* C27: Run returns an error when the device fails at the set-up of the
\* command buffer, at the set-up of the encoder or while it runs the
\* committed work, a different error for each of the three; Run returns no
\* error only when the committed work completed without an error of the
\* device.
C27_DeviceFailuresReported ==
  \A t \in Threads :
    (pc[t] = "done" /\ op[t].kind = "Run")
      => /\ res[t].err = NoErr => res[t].status = "completed"
         /\ res[t].status = "error"
              => /\ res[t].err # NoErr
                 /\ res[t].err.text \notin
                      {"Failed to set up command buffer",
                       "Failed to set up compute encoder"}

\* C28: cache_cache called with no item returns to its caller with Id 0 and
\* leaves the count and the slots as they were; called with an item it
\* returns an Id above zero, which the creating call hands on.
C28_StoreFailsOnlyForNoItem ==
  \A t \in Threads :
    /\ op[t].kind = "Store"
         => /\ pc[t] # "aborted"
            /\ pc[t] = "done" => res[t].id = 0
            /\ Handles = 1..numItems
    /\ (pc[t] = "done" /\ op[t].kind = "NewFunction" /\ res[t].ptr # NIL)
         => res[t].id > 0

\* The Run calls whose command buffer for kernel k is committed and not yet
\* completed, and those that are past the lookup of k and have not returned.
InFlight(k) ==
  {t \in Threads : /\ op[t].kind = "Run" /\ op[t].ptr = k
                   /\ cmdBuf[t].status = "committed"}
Running(k) ==
  {t \in Threads : /\ op[t].kind = "Run" /\ op[t].ptr = k
                   /\ pc[t] \notin {"idle", "done", "aborted"}}

\* C29 as stated: on the command queue of any one kernel at most one
\* dispatch is committed and not yet completed, also when several callers
\* run the same kernel at the same time.
C29_OneDispatchInFlightPerKernel ==
  \A k \in 1..Len(objs) : Cardinality(InFlight(k)) <= 1

\* C29, amended: nothing serialises Run calls on one kernel; each call has
\* its dispatch in flight only while it is inside Run, and has returned only
\* with the dispatch no longer in flight, so that at most one dispatch is
\* in flight on a kernel's queue while at most one caller runs that kernel.
C29_InFlightOnlyInsideRun ==
  /\ \A k \in 1..Len(objs) :
       /\ InFlight(k) \subseteq Running(k)
       /\ Cardinality(Running(k)) <= 1 => Cardinality(InFlight(k)) <= 1
  /\ \A t \in Threads :
       (pc[t] = "done" /\ op[t].kind = "Run")
         => /\ cmdBuf[t].status = "none"
            /\ res[t].status # "committed"
            /\ res[t].err = NoErr => res[t].status \in {"completed", "error"}

C29_Witness ==
  \E t, u \in Threads :
    /\ t # u
    /\ op[t].ptr = op[u].ptr
    /\ {t, u} \subseteq InFlight(op[t].ptr)

\* C30: a Run call sends commit at most once.  It commits only with no
\* commit behind it, with its kernel Id and every buffer Id resolved and
\* every buffer bound; it returns no error exactly when it committed once
\* and an error only when it never committed; and the memory of the device
\* changes during a Run call only while its command buffer is committed.
C30_CommitAtMostOnce ==
  [][\A t \in Threads :
       /\ (cmdBuf'[t].status = "committed" /\ cmdBuf[t].status # "committed")
            => /\ cmdBuf[t] = NoCmd
               /\ cmdBuf'[t].commits = 1
               /\ Resolves(op[t].fid)
               /\ \A j \in 1..Len(op[t].bufs) : Resolves(op[t].bufs[j])
               /\ Len(bound'[t]) = Len(op[t].bufs)
       /\ cmdBuf'[t].commits <= 1
       /\ (op'[t].kind = "Run" /\ pc[t] # "done" /\ pc'[t] = "done")
            => /\ (res'[t].err = NoErr) <=> (res'[t].commits = 1)
               /\ (res'[t].err # NoErr) <=> (res'[t].commits = 0)
       /\ (op'[t].kind = "Run" /\ objs' # objs)
            => cmdBuf[t].status = "committed"]_vars

\* A Run has returned an error for a buffer Id whose slot was cleared,
\* after the buffer before it was bound, without a commit.
C30_Witness ==
  \E t \in Threads :
    /\ pc[t] = "done" /\ op[t].kind = "Run"
    /\ Resolves(op[t].fid)
    /\ Len(op[t].bufs) = 2
    /\ Resolves(op[t].bufs[1])
    /\ op[t].bufs[2] <= numItems /\ ~Resolves(op[t].bufs[2])
    /\ res[t].err # NoErr
    /\ res[t].commits = 0

\* C31: an Id issued for a buffer is not taken for a kernel and an Id
\* issued for a kernel is not taken for a buffer.  String on a buffer's Id
\* returns "", Run on a buffer's Id returns "Failed to retrieve function",
\* and Run with a kernel's Id in its buffer list returns "Failed to
\* retrieve buffer" for that position; none of them ends the process or
\* commits work.
C31_KindsNotInterchangeable ==
  \A t \in Threads :
    /\ (/\ op[t].kind \in {"Name", "Run"}
        /\ Resolves(op[t].fid)
        /\ Deref(cache[op[t].fid]).kind = "buffer")
         => /\ pc[t] # "aborted"
            /\ cmdBuf[t].status = "none"
            /\ pc[t] = "done"
                 => /\ res[t].name = ""
                    /\ op[t].kind = "Run"
                         => res[t].err = metalErrToError(
                              Str("Failed to retrieve function"),
                              "Unable to run metal function")
    /\ (/\ op[t].kind = "Run"
        /\ Resolves(op[t].fid)
        /\ Deref(cache[op[t].fid]).kind = "function"
        /\ \E j \in 1..Len(op[t].bufs) :
             /\ Resolves(op[t].bufs[j])
             /\ Deref(cache[op[t].bufs[j]]).kind = "function"
        /\ \A j \in 1..Len(op[t].bufs) : Resolves(op[t].bufs[j]))
         => /\ pc[t] # "aborted"
            /\ cmdBuf[t].status = "none"
            /\ pc[t] = "done" => res[t].err # NoErr

\* C32: with callers taking turns, a completed cache_remove(h) has left the
\* cache as cache_remove makes it from the cache the call found: count and
\* length the same, slot h empty, every other slot as it was.  Called on a
\* slot that was empty already it changes nothing, applying it again to
\* its result changes nothing, and for every other Id g in range removing
\* h then g gives the same cache as removing g then h.
C32_RemoveIdempotentAndCommutes ==
  \A t \in Threads :
    (pc[t] = "done" /\ op[t].kind = "Remove")
      => LET h == op[t].fid
             c == before[t].c
         IN /\ h \in 1..before[t].n
            /\ numItems = before[t].n
            /\ cache = cache_remove(c, h)
            /\ cache[h] = NIL
            /\ \A k \in (1..Len(c)) \ {h} : cache[k] = c[k]
            /\ c[h] = NIL => cache = c
            /\ cache_remove(cache, h) = cache
            /\ \A g \in 1..numItems :
                 cache_remove(cache_remove(c, h), g)
                   = cache_remove(cache_remove(c, g), h)

\* cache_remove has returned for an Id whose slot was empty when it was
\* called, with another slot still holding its item.
C32_Witness ==
  \E t \in Threads :
    /\ pc[t] = "done" /\ op[t].kind = "Remove" /\ op[t].fid = 1
    /\ before[t].n = 2 /\ before[t].c[1] = NIL
    /\ cache = before[t].c
    /\ cache[2] # NIL

\* Thread t is inside a call of cache_cache, cache_retrieve or cache_remove.
InCacheCall(t) ==
  pc[t] \in {"cc_enter", "cc_inc", "cc_realloc", "cc_assign", "cc_write",
             "cc_id", "cr_enter", "cr_read", "rm_enter", "rm_write"}

\* C33: under fair scheduling every call of cache_cache, cache_retrieve and
\* cache_remove that a thread has started returns to it, whatever the other
\* threads have called and whichever of their calls failed the range check;
\* and while the process lives the lock is held only by a thread inside a
\* synchronized block.
C33_CacheCallsComplete ==
  /\ \A t \in Threads : InCacheCall(t) ~> (pc[t] = "done")
  /\ []((~aborted /\ lockHolder # NoThread) => InSection(lockHolder))

\* C34: for pipeline limits with 1 <= warpWidth <= maxGroupThreads the
\* group shape (w, h, 1) a dispatch is given has w >= 1 and h >= 1, and its
\* thread count w * h is at most maxGroupThreads and more than
\* maxGroupThreads - warpWidth, whether or not warpWidth divides
\* maxGroupThreads.
C34_GroupWithinBudget ==
  \A t \in Threads :
    (pc[t] = "done" /\ op[t].kind = "Run" /\ res[t].err = NoErr)
      => LET k == Deref(res[t].ptr)
             g == res[t].group
         IN /\ k.kind = "function"
            /\ 1 <= k.tew /\ k.tew <= k.maxT
            /\ g[1] >= 1 /\ g[2] >= 1 /\ g[3] = 1
            /\ g[1] * g[2] <= k.maxT
            /\ g[1] * g[2] > k.maxT - k.tew

\* A dispatch on a pipeline with limits 5 and 3, which do not divide: the
\* group is (3, 1, 1), two threads short of the budget.
C34_Witness ==
  \E t \in Threads :
    /\ pc[t] = "done" /\ op[t].kind = "Run" /\ res[t].err = NoErr
    /\ Deref(res[t].ptr).tew = 3 /\ Deref(res[t].ptr).maxT = 5
    /\ res[t].group = <<3, 1, 1>>
    /\ res[t].status = "completed"

====
